---- MODULE Spec2Model ----
(***************************************************************************)
(* A model of the "ami" geometry kernel: the bounding cube (bcube.rs) and  *)
(* the 4x4 affine transform (mat4.rs).                                     *)
(*                                                                         *)
(* Numbers: the program computes in f32 / f64.  Every value of the model   *)
(* is a small integer, and the model's arithmetic is the exact arithmetic  *)
(* that f32 and f64 perform on such values (no rounding happens below      *)
(* 2^24).  Angles are counted in quarter turns (pi/2), where sine and      *)
(* cosine are 0, 1 or -1; the model takes them to be exactly that.         *)
(*                                                                         *)
(* A caller drives the library: it calls one operation (the call's name,   *)
(* argument and return value are op, arg and ret) and takes the result     *)
(* (Return) before the next call.                                          *)
(***************************************************************************)
EXTENDS Integers, Sequences, FiniteSets, TLC

VARIABLES
    center,     \* BCube.center, a Vec3 <<x, y, z>>
    half_len,   \* BCube.half_len
    ctor,       \* which constructor made the cube: "new" or "empty"
    extends,    \* number of extend calls made on the cube so far
    m,          \* the caller's running Mat4, 16 entries, row-major
    chain,      \* the builder calls that made m from IDENTITY, in order
    op,         \* the last call: "idle" once its result is taken
    arg,        \* the last call's argument
    ret         \* the last call's return value

vars == <<center, half_len, ctor, extends, m, chain, op, arg, ret>>

None == "none"

----------------------------------------------------------------------------
(* Bounds of the model *)

\* new(p): p is (i, -i, 2i) for i in 0..MaxP
MaxP == 1
\* a cube is extended while the doubled |half_len| stays within MaxHalfLen
MaxHalfLen == 4
\* boxes: on each axis min = j * BoxStep for j in -MaxBoxIdx..MaxBoxIdx,
\* and max = min + len for len in BoxLens
BoxStep == 3
MaxBoxIdx == 1
\* points handed to contains: coordinates in -MaxPoint..MaxPoint
MaxPoint == 1
\* the accommodating loop stops extending once the doubled half_len would
\* pass RepeatMaxHalfLen
RepeatMaxHalfLen == 64
\* the loop's boxes have their coordinates in {-RepeatReach, -1, 0, 1, RepeatReach}
RepeatReach == 3
\* the caller chains at most MaxChain builder calls
MaxChain == 2
\* Vec3::angle returns at most MaxAngle quarter turns, of either sign
MaxAngle == 5
\* a plane's offset is in 0..MaxOffset
MaxOffset == 1

----------------------------------------------------------------------------
(* Vec3 and BBox: the value library the cube consumes *)

Vec3(x, y, z) == <<x, y, z>>

\* Vec3 + f32, Vec3 - f32: componentwise
AddScalar(v, s) == <<v[1] + s, v[2] + s, v[3] + s>>

SubScalar(v, s) == <<v[1] - s, v[2] - s, v[3] - s>>

\* Vec3 + Vec3, Vec3 - Vec3
AddVec(a, b) == <<a[1] + b[1], a[2] + b[2], a[3] + b[3]>>

SubVec(a, b) == <<a[1] - b[1], a[2] - b[2], a[3] - b[3]>>

\* BBox::new(min, max)
BBoxNew(min, max) == [min |-> min, max |-> max]

\* the eight corners of a box
Corners(b) ==
    {Vec3(x, y, z) : x \in {b.min[1], b.max[1]}, y \in {b.min[2], b.max[2]},
                     z \in {b.min[3], b.max[3]}}

----------------------------------------------------------------------------
(* BCube *)

BCube(c, h) == [center |-> c, half_len |-> h]

\* the cube the variables hold
self == BCube(center, half_len)

\* BCube::empty()
empty == BCube(Vec3(0, 0, 0), -1)

\* BCube::new(p)
new(p) == BCube(p, 1)

\* BCube::to_point_pair: (max corner, min corner)
to_point_pair(c) ==
    LET half_cube == Vec3(c.half_len, c.half_len, c.half_len)
    IN  <<AddVec(c.center, half_cube), SubVec(c.center, half_cube)>>

\* BCube::to_bbox
to_bbox(c) ==
    LET pair == to_point_pair(c)
        max == pair[1]
        min == pair[2]
    IN  BBoxNew(min, max)

\* One axis of BBox::bcube_sides: TRUE when the box [bmin, bmax] lies closer
\* to the cube's max plane than to its min plane; a tie is FALSE.
Side(bmin, bmax, cmin, cmax) == (cmax - bmax) < (bmin - cmin)

\* BBox::bcube_sides(bcube): the three "grows toward max" flags
bcube_sides(p, bcube) ==
    LET pair == to_point_pair(bcube)
        max == pair[1]
        min == pair[2]
    IN  << Side(p.min[1], p.max[1], min[1], max[1]),
           Side(p.min[2], p.max[2], min[2], max[2]),
           Side(p.min[3], p.max[3], min[3], max[3]) >>

\* move_center with the (false, true, true) arm returning the corner of the
\* (false, true, false) arm
move_center_wrong_arm(c, p) ==
    LET sides == bcube_sides(p, c)
        min == SubScalar(c.center, c.half_len)
        max == AddScalar(c.center, c.half_len)
    IN  CASE sides = <<FALSE, FALSE, FALSE>> -> Vec3(min[1], min[2], min[3])
          [] sides = <<FALSE, FALSE, TRUE>>  -> Vec3(min[1], min[2], max[3])
          [] sides = <<FALSE, TRUE, FALSE>>  -> Vec3(min[1], max[2], min[3])
          [] sides = <<FALSE, TRUE, TRUE>>   -> Vec3(min[1], max[2], min[3])
          [] sides = <<TRUE, FALSE, FALSE>>  -> Vec3(max[1], min[2], min[3])
          [] sides = <<TRUE, FALSE, TRUE>>   -> Vec3(max[1], min[2], max[3])
          [] sides = <<TRUE, TRUE, FALSE>>   -> Vec3(max[1], max[2], min[3])
          [] sides = <<TRUE, TRUE, TRUE>>    -> Vec3(max[1], max[2], max[3])

\* move_center with min and max taken the other way round: the cube grows
\* away from the box
move_center_away(c, p) ==
    LET sides == bcube_sides(p, c)
        min == AddScalar(c.center, c.half_len)
        max == SubScalar(c.center, c.half_len)
    IN  Vec3(IF sides[1] THEN max[1] ELSE min[1],
             IF sides[2] THEN max[2] ELSE min[2],
             IF sides[3] THEN max[3] ELSE min[3])

\* BCube::move_center
move_center(c, p) ==
    LET sides == bcube_sides(p, c)
        min == SubScalar(c.center, c.half_len)
        max == AddScalar(c.center, c.half_len)
    IN  CASE sides = <<FALSE, FALSE, FALSE>> -> Vec3(min[1], min[2], min[3])
          [] sides = <<FALSE, FALSE, TRUE>>  -> Vec3(min[1], min[2], max[3])
          [] sides = <<FALSE, TRUE, FALSE>>  -> Vec3(min[1], max[2], min[3])
          [] sides = <<FALSE, TRUE, TRUE>>   -> Vec3(min[1], max[2], max[3])
          [] sides = <<TRUE, FALSE, FALSE>>  -> Vec3(max[1], min[2], min[3])
          [] sides = <<TRUE, FALSE, TRUE>>   -> Vec3(max[1], min[2], max[3])
          [] sides = <<TRUE, TRUE, FALSE>>   -> Vec3(max[1], max[2], min[3])
          [] sides = <<TRUE, TRUE, TRUE>>    -> Vec3(max[1], max[2], max[3])

\* contains with the max faces included
contains_closed(c, p) ==
    \A i \in 1..3 : p[i] >= c.center[i] - c.half_len /\ p[i] <= c.center[i] + c.half_len

\* BCube::contains
contains(c, p) ==
    LET x == c.center[1]
        y == c.center[2]
        z == c.center[3]
        hl == c.half_len
    IN  /\ p[1] >= x - hl
        /\ p[1] < x + hl
        /\ p[2] >= y - hl
        /\ p[2] < y + hl
        /\ p[3] >= z - hl
        /\ p[3] < z + hl

\* extend that doubles half_len and leaves the center where it was
extend_no_move(c, p) == BCube(c.center, c.half_len * 2)

\* extend that returns at once when the cube contains the box
extend_skip_contained(c, p) ==
    IF \A q \in Corners(p) : contains(c, q)
    THEN c
    ELSE BCube(move_center(c, p), c.half_len * 2)

\* extend that starts an empty cube at half_len 1
extend_guarded(c, p) ==
    BCube(move_center(c, p), IF c.half_len < 0 THEN 1 ELSE c.half_len * 2)

\* BCube::extend
extend(c, p) == BCube(move_center(c, p), c.half_len * 2)

\* BCube::pn_pair_from_normal: the pair it returns
pn_pair_from_normal(c, normal) ==
    LET hl == c.half_len
        px == IF normal[1] >= 0 THEN c.center[1] + hl ELSE c.center[1] - hl
        nx == IF normal[1] >= 0 THEN c.center[1] - hl ELSE c.center[1] + hl
        py == IF normal[2] >= 0 THEN c.center[2] + hl ELSE c.center[2] - hl
        ny == IF normal[2] >= 0 THEN c.center[2] - hl ELSE c.center[2] + hl
        pz == IF normal[3] >= 0 THEN c.center[3] + hl ELSE c.center[3] - hl
        nz == IF normal[3] >= 0 THEN c.center[3] - hl ELSE c.center[3] + hl
        pvertex == Vec3(px, py, pz)
        nvertex == Vec3(nx, ny, nz)
    IN  <<nvertex, pvertex>>

----------------------------------------------------------------------------
(* Inputs *)

Abs(i) == IF i < 0 THEN -i ELSE i

NewPoints == {Vec3(i, -i, 2 * i) : i \in 0..MaxP}

BoxLows == {j * BoxStep : j \in -MaxBoxIdx..MaxBoxIdx}

\* the extents [lo, hi] a box can have on one axis
BoxLens == {0, 1, 2}

Intervals == {<<lo, lo + len>> : lo \in BoxLows, len \in BoxLens}

Boxes ==
    {BBoxNew(Vec3(ix[1], iy[1], iz[1]), Vec3(ix[2], iy[2], iz[2])) :
        ix \in Intervals, iy \in Intervals, iz \in Intervals}

PointCoords == -MaxPoint..MaxPoint

Points == {Vec3(x, y, z) : x \in PointCoords, y \in PointCoords, z \in PointCoords}

Signs == {-1, 0, 1}

Normals == {Vec3(x, y, z) : x \in Signs, y \in Signs, z \in Signs}

IDENTITY == <<1, 0, 0, 0,  0, 1, 0, 0,  0, 0, 1, 0,  0, 0, 0, 1>>

----------------------------------------------------------------------------
(* The cube's caller *)

CubeQuiet == UNCHANGED <<m, chain>>

InitCube ==
    /\ \/ /\ \E p \in NewPoints : center = new(p).center /\ half_len = new(p).half_len
          /\ ctor = "new"
       \/ /\ center = empty.center /\ half_len = empty.half_len
          /\ ctor = "empty"
    /\ extends = 0
    /\ m = IDENTITY
    /\ chain = <<>>
    /\ op = "idle"
    /\ arg = None
    /\ ret = None

\* self.extend(b)
Extend(b) ==
    /\ op = "idle"
    /\ 2 * Abs(half_len) <= MaxHalfLen
    /\ center' = extend(self, b).center
    /\ half_len' = extend(self, b).half_len
    /\ extends' = extends + 1
    /\ op' = "extend"
    /\ arg' = b
    /\ ret' = None
    /\ UNCHANGED ctor
    /\ CubeQuiet

\* self.contains(p)
Contains(p) ==
    /\ op = "idle"
    /\ op' = "contains"
    /\ arg' = p
    /\ ret' = contains(self, p)
    /\ UNCHANGED <<center, half_len, ctor, extends>>
    /\ CubeQuiet

\* self.to_point_pair()
ToPointPair ==
    /\ op = "idle"
    /\ op' = "to_point_pair"
    /\ arg' = None
    /\ ret' = to_point_pair(self)
    /\ UNCHANGED <<center, half_len, ctor, extends>>
    /\ CubeQuiet

\* self.to_bbox()
ToBBox ==
    /\ op = "idle"
    /\ op' = "to_bbox"
    /\ arg' = None
    /\ ret' = to_bbox(self)
    /\ UNCHANGED <<center, half_len, ctor, extends>>
    /\ CubeQuiet

\* self.pn_pair_from_normal(normal)
PnPair(normal) ==
    /\ op = "idle"
    /\ op' = "pn_pair_from_normal"
    /\ arg' = normal
    /\ ret' = pn_pair_from_normal(self, normal)
    /\ UNCHANGED <<center, half_len, ctor, extends>>
    /\ CubeQuiet

\* the caller takes the result of its last call
Return ==
    /\ op # "idle"
    /\ op' = "idle"
    /\ arg' = None
    /\ ret' = None
    /\ UNCHANGED <<center, half_len, ctor, extends, m, chain>>

\* the calls of the caller, each made once the last result is taken
ExtendAny == op = "idle" /\ \E b \in Boxes : Extend(b)

ContainsAny == op = "idle" /\ \E p \in Points : Contains(p)

PnPairAny == op = "idle" /\ \E n \in Normals : PnPair(n)

Next ==
    \/ ExtendAny
    \/ ContainsAny
    \/ ToPointPair
    \/ ToBBox
    \/ PnPairAny
    \/ Return

Spec == InitCube /\ [][Next]_vars

----------------------------------------------------------------------------
(* Properties of the cube *)

\* p is in the cube with its max faces included
InClosedCube(c, p) ==
    \A i \in 1..3 : c.center[i] - c.half_len <= p[i] /\ p[i] <= c.center[i] + c.half_len

\* contains is true of every corner of b
ContainsBox(c, b) == \A p \in Corners(b) : contains(c, p)

\* One doubling can reach b from c: on every axis b is either below the
\* cube's max plane and at most one cube width under its min plane, or above
\* its min plane and less than one cube width over its max plane.
WithinOneDoubling(c, b) ==
    \A i \in 1..3 :
        LET cmin == c.center[i] - c.half_len
            cmax == c.center[i] + c.half_len
        IN  \/ cmin - 2 * c.half_len <= b.min[i] /\ b.max[i] < cmax
            \/ cmin < b.min[i] /\ b.max[i] < cmax + 2 * c.half_len

\* the integer points of the closed cube c
LatticePoints(c) ==
    LET h == Abs(c.half_len)
    IN  {AddVec(c.center, Vec3(dx, dy, dz)) : dx \in -h..h, dy \in -h..h, dz \in -h..h}

RECURSIVE Pow2(_)
Pow2(n) == IF n = 0 THEN 1 ELSE 2 * Pow2(n - 1)

C2_OctantDoubling ==
    [][op' = "extend" =>
          LET sides == bcube_sides(arg', self)
              old == to_point_pair(self)
          IN  /\ half_len' = 2 * half_len
              /\ \A i \in 1..3 :
                    center'[i] = IF sides[i] THEN center[i] + half_len
                                 ELSE center[i] - half_len
              /\ center' \in Corners(BBoxNew(old[2], old[1]))
              /\ ctor = "new" =>
                    /\ InClosedCube(self', old[1]) /\ InClosedCube(self', old[2])
                    /\ \A p \in LatticePoints(self) :
                          contains(self, p) => contains(self', p)
      ]_vars

\* C2's case: a cube made by new(p) after its second extend.
C2_Witness ==
    /\ ctor = "new" /\ op = "extend" /\ extends = 2 /\ half_len = 4
    /\ center # Vec3(0, 0, 0)

\* C3 as stated: extend with a box the cube already contains leaves center and
\* half_len as they were.
C3_Original ==
    [][(op' = "extend" /\ ctor = "new" /\ ContainsBox(self, arg'))
          => (center' = center /\ half_len' = half_len)]_vars

\* C3 as amended: extend with a box the cube already contains is not a no-op:
\* it doubles half_len and moves the center by the old half_len on every axis,
\* and the cube still contains the box.
C3_ReextendStillGrows ==
    [][(op' = "extend" /\ ctor = "new" /\ ContainsBox(self, arg'))
          => /\ half_len' = 2 * half_len
             /\ \A i \in 1..3 : Abs(center'[i] - center[i]) = half_len
             /\ ContainsBox(self', arg')]_vars

\* C3's case: new((0,0,0)) contains the point box at the origin and has been
\* extended with it (a tie on every axis: the cube grew toward min).
C3_Witness ==
    /\ ctor = "new" /\ op = "extend" /\ extends = 1
    /\ arg = BBoxNew(Vec3(0, 0, 0), Vec3(0, 0, 0))
    /\ ContainsBox(new(Vec3(0, 0, 0)), arg)
    /\ center = Vec3(-1, -1, -1) /\ half_len = 2

\* C7: pn_pair_from_normal returns (positive vertex, negative vertex): the first
\* is center + half_len on the axes where the normal is >= 0 and center -
\* half_len on the others, the second is its mirror image through the center.
C7_PositiveFirst ==
    op = "pn_pair_from_normal" =>
        \A i \in 1..3 :
            /\ ret[1][i] = IF arg[i] >= 0 THEN center[i] + half_len
                           ELSE center[i] - half_len
            /\ ret[2][i] = 2 * center[i] - ret[1][i]

\* C8: contains(p) is true exactly when center - half_len <= p < center +
\* half_len on all three axes; so the min corner of to_point_pair and of
\* to_bbox is contained and the max corner is not, when half_len > 0.
C8_HalfOpen ==
    /\ op = "contains" =>
          (ret <=> \A i \in 1..3 :
                      center[i] - half_len <= arg[i] /\ arg[i] < center[i] + half_len)
    /\ (op = "to_point_pair" /\ half_len > 0) =>
          (contains(self, ret[2]) /\ ~contains(self, ret[1]))
    /\ (op = "to_bbox" /\ half_len > 0) =>
          (contains(self, ret.min) /\ ~contains(self, ret.max))

\* C8's case: contains has refused a point that is on the cube's max x face
\* and strictly inside on the other two axes.
C8_Witness ==
    /\ op = "contains" /\ ret = FALSE /\ half_len > 0
    /\ arg[1] = center[1] + half_len
    /\ \A i \in 2..3 : center[i] - half_len <= arg[i] /\ arg[i] < center[i] + half_len

\* C10: a cube from empty() keeps half_len < 0 through any number of extends
\* (-1, -2, -4, ...) and contains is false of every point; a cube from new(p)
\* has half_len = 2^n > 0 after n extends.
C10_EmptyStaysEmpty ==
    /\ ctor = "empty" =>
          /\ half_len < 0
          /\ half_len = -Pow2(extends)
          /\ op = "contains" => ret = FALSE
          /\ \A p \in Points : ~contains(self, p)
    /\ ctor = "new" => (half_len > 0 /\ half_len = Pow2(extends))

\* C10's case: the empty cube, extended twice, asked for a point.
C10_Witness ==
    ctor = "empty" /\ extends = 2 /\ half_len = -4 /\ op = "contains"

----------------------------------------------------------------------------
(* A caller that accommodates one box: it repeats extend(box) until the    *)
(* cube contains every corner of the box.                                  *)
(*     let mut cube = BCube::new(p);                                       *)
(*     while !contains_box(cube, box) { cube.extend(box) }                 *)

\* the coordinates of the loop's boxes
RepeatCoords == {-RepeatReach, -1, 0, 1, RepeatReach}

\* the extents [lo, hi] such a box can have on one axis: points, and extents
\* wider than the cube the loop starts from
RepeatIntervals == {<<lo, hi>> \in RepeatCoords \X RepeatCoords : lo <= hi}

RepeatBoxes ==
    {BBoxNew(Vec3(ix[1], iy[1], iz[1]), Vec3(ix[2], iy[2], iz[2])) :
        ix \in RepeatIntervals, iy \in RepeatIntervals, iz \in RepeatIntervals}

InitRepeat ==
    /\ \E p \in NewPoints : center = new(p).center /\ half_len = new(p).half_len
    /\ ctor = "new"
    /\ extends = 0
    /\ m = IDENTITY
    /\ chain = <<>>
    /\ op = "loop"
    /\ arg \in RepeatBoxes
    /\ ret = None

\* the loop's body: the box is not contained yet
ExtendAgain ==
    /\ op = "loop"
    /\ ~ContainsBox(self, arg)
    /\ 2 * half_len <= RepeatMaxHalfLen
    /\ center' = extend(self, arg).center
    /\ half_len' = extend(self, arg).half_len
    /\ extends' = extends + 1
    /\ UNCHANGED <<ctor, op, arg, ret>>
    /\ CubeQuiet

\* the loop's exit: the box is contained
LoopExit ==
    /\ op = "loop"
    /\ ContainsBox(self, arg)
    /\ op' = "done"
    /\ UNCHANGED <<center, half_len, ctor, extends, arg, ret>>
    /\ CubeQuiet

NextRepeat ==
    \/ ExtendAgain
    \/ LoopExit

\* the loop is sequential code that keeps running: its next step is taken
SpecRepeat == InitRepeat /\ [][NextRepeat]_vars /\ WF_vars(NextRepeat)

\* C9: the loop ends: after finitely many extend(box) calls the cube made by
\* new(p) contains the whole box.
C9_EventuallyContained == <>(op = "done" /\ ContainsBox(self, arg))

\* C9's case: the loop has ended after three calls on a box that is wider than
\* the cube it started from.
C9_Witness ==
    /\ op = "done" /\ extends >= 3 /\ ContainsBox(self, arg)
    /\ \E i \in 1..3 : arg.max[i] - arg.min[i] > 2

----------------------------------------------------------------------------
(* Mat4 *)

\* an angle is a whole number of quarter turns: PI is 2 of them
PI == 2

\* f64::sin, f64::cos at a quarter turns
Sin(a) == <<0, 1, 0, -1>>[(a % 4) + 1]

Cos(a) == <<1, 0, -1, 0>>[(a % 4) + 1]

\* self.0[i], the source's index from 0
At(M, i) == M[i + 1]

\* Mat4::to_f32_array: each entry narrowed to f32, which keeps a small integer
to_f32_array(M) == [i \in 1..16 |-> M[i]]

\* Mul<Mat4> for Mat4 (self * rhs): entry 4r + c is row r of self by column c
\* of rhs
MulMat4_swapped(a, rhs) ==
    [i \in 1..16 |->
        LET r == (i - 1) \div 4
            c == (i - 1) % 4
        IN  (At(rhs, 4 * r) * At(a, c)) + (At(rhs, 4 * r + 1) * At(a, 4 + c)) +
            (At(rhs, 4 * r + 2) * At(a, 8 + c)) + (At(rhs, 4 * r + 3) * At(a, 12 + c))]

MulMat4(a, rhs) ==
    [i \in 1..16 |->
        LET r == (i - 1) \div 4
            c == (i - 1) % 4
        IN  (At(a, 4 * r) * At(rhs, c)) + (At(a, 4 * r + 1) * At(rhs, 4 + c)) +
            (At(a, 4 * r + 2) * At(rhs, 8 + c)) + (At(a, 4 * r + 3) * At(rhs, 12 + c))]

\* Mul<Vec3> for Mat4: transform as a position (w = 1)
MulVec3(M, rhs) ==
    LET mat == to_f32_array(M)
        x == At(mat, 0) * rhs[1] + At(mat, 4) * rhs[2] + At(mat, 8) * rhs[3] + At(mat, 12) * 1
        y == At(mat, 1) * rhs[1] + At(mat, 5) * rhs[2] + At(mat, 9) * rhs[3] + At(mat, 13) * 1
        z == At(mat, 2) * rhs[1] + At(mat, 6) * rhs[2] + At(mat, 10) * rhs[3] + At(mat, 14) * 1
    IN  Vec3(x, y, z)

\* Mul<Vec4> for Mat4
MulVec4(M, rhs) ==
    LET mat == to_f32_array(M)
        x == At(mat, 0) * rhs[1] + At(mat, 4) * rhs[2] + At(mat, 8) * rhs[3] + At(mat, 12) * rhs[4]
        y == At(mat, 1) * rhs[1] + At(mat, 5) * rhs[2] + At(mat, 9) * rhs[3] + At(mat, 13) * rhs[4]
        z == At(mat, 2) * rhs[1] + At(mat, 6) * rhs[2] + At(mat, 10) * rhs[3] + At(mat, 14) * rhs[4]
        w == At(mat, 3) * rhs[1] + At(mat, 7) * rhs[2] + At(mat, 11) * rhs[3] + At(mat, 15) * rhs[4]
    IN  <<x, y, z, w>>

\* Mat4::matrix
matrix(M, mat) == MulMat4(M, mat)

\* Mat4::scale
scale(M, x, y, z) ==
    matrix(M, << x, 0, 0, 0,
                 0, y, 0, 0,
                 0, 0, z, 0,
                 0, 0, 0, 1 >>)

\* Mat4::translate
translate(M, x, y, z) ==
    matrix(M, << 1, 0, 0, 0,
                 0, 1, 0, 0,
                 0, 0, 1, 0,
                 x, y, z, 1 >>)

\* Mat4::rotate.  The arguments are given in halves: rotate(1.0, 0.0, 0.0) is
\* rotate(M, 2, 0, 0), so that x * PI is x2 quarter turns.
rotate(M, x2, y2, z2) ==
    LET num9 == z2
        num6 == Sin(num9)
        num5 == Cos(num9)
        num8 == x2
        num4 == Sin(num8)
        num3 == Cos(num8)
        num7 == y2
        num2 == Sin(num7)
        num  == Cos(num7)
        qx == ((num * num4) * num5) + ((num2 * num3) * num6)
        qy == ((num2 * num3) * num5) - ((num * num4) * num6)
        qz == ((num * num3) * num6) - ((num2 * num4) * num5)
        qw == ((num * num3) * num5) + ((num2 * num4) * num6)
        nx == -qx
        ny == -qy
        nz == -qz
    IN  matrix(matrix(M, << qw, nz, qy, nx,
                            qz, qw, nx, ny,
                            ny, qx, qw, nz,
                            qx, qy, qz, qw >>),
               << qw, nz, qy, qx,
                  qz, qw, nx, qy,
                  ny, qx, qw, qz,
                  nx, ny, nz, qw >>)

\* Vec3::transform_dir(matrix): the linear part applied to a direction, no
\* translation
transform_dir(v, M) ==
    Vec3(At(M, 0) * v[1] + At(M, 4) * v[2] + At(M, 8) * v[3],
         At(M, 1) * v[1] + At(M, 5) * v[2] + At(M, 9) * v[3],
         At(M, 2) * v[1] + At(M, 6) * v[2] + At(M, 10) * v[3])

Dot(a, b) == a[1] * b[1] + a[2] * b[2] + a[3] * b[3]

\* the length of v is a whole number
WholeLength(v) == \E r \in 0..(Abs(v[1]) + Abs(v[2]) + Abs(v[3])) : r * r = Dot(v, v)

\* Vec3::mag, the length of a vector whose length is a whole number
mag(v) == CHOOSE r \in 0..(Abs(v[1]) + Abs(v[2]) + Abs(v[3])) : r * r = Dot(v, v)

\* The values Vec3::angle may return for two vectors that are parallel,
\* opposite or at a right angle: every angle of 0..MaxAngle quarter turns, of
\* either sign, whose cosine is the cosine of the angle between them.
angle(a, b) ==
    {s * q : s \in {-1, 1},
             q \in {k \in 0..MaxAngle :
                       /\ Cos(k) * Cos(k) * Dot(a, a) * Dot(b, b) = Dot(a, b) * Dot(a, b)
                       /\ Cos(k) * Dot(a, b) >= 0}}

\* the vectors angle is modelled for
Aligned(a, b) ==
    /\ Dot(a, a) > 0
    /\ Dot(b, b) > 0
    /\ \/ Dot(a, b) = 0
       \/ Dot(a, b) * Dot(a, b) = Dot(a, a) * Dot(b, b) /\ WholeLength(b)

\* Mul<Plane> for Mat4, "If more than full circle, reduce"
RECURSIVE ReduceAngle(_)
ReduceAngle(a) == IF a > PI * 2 THEN ReduceAngle(a - PI * 2) ELSE a

\* Mul<Plane> for Mat4, the quadrants: the folded angle a and the sign b, with
\* the third quadrant's sign left as it was
FoldAngle_third_kept(a0) ==
    IF a0 > PI \div 2
    THEN IF a0 < PI THEN [a |-> PI - a0, b |-> -1]
         ELSE IF a0 < (3 * PI) \div 2 THEN [a |-> a0 - PI, b |-> 1]
         ELSE [a |-> (2 * PI) - a0, b |-> 1]
    ELSE [a |-> a0, b |-> 1]

\* Mul<Plane> for Mat4, the quadrants: the folded angle a and the sign b
FoldAngle(a0) ==
    IF a0 > PI \div 2
    THEN IF a0 < PI THEN [a |-> PI - a0, b |-> -1]
         ELSE IF a0 < (3 * PI) \div 2 THEN [a |-> a0 - PI, b |-> -1]
         ELSE [a |-> (2 * PI) - a0, b |-> 1]
    ELSE [a |-> a0, b |-> 1]

\* Mul<Plane> for Mat4; raw is what facing.angle(t) returned
MulPlane(M, rhs, raw) ==
    LET mat == to_f32_array(M)
        facing == transform_dir(rhs.facing, M)
        t == Vec3(At(mat, 12), At(mat, 13), At(mat, 14))
    IN  IF t = Vec3(0, 0, 0)
        THEN [facing |-> facing, offset |-> rhs.offset]
        ELSE LET f == FoldAngle(ReduceAngle(Abs(raw)))
                 offset == rhs.offset + (IF f.a >= PI \div 2
                                         THEN 0
                                         ELSE Cos(f.a) * mag(t) * f.b)
             IN  [facing |-> facing, offset |-> offset]

----------------------------------------------------------------------------
(* The transform's caller: it builds m by chained calls from IDENTITY and   *)
(* applies it.                                                              *)

\* arguments of scale and of translate
ScaleArgs == {Vec3(2, 3, 5), Vec3(-1, 1, 2), Vec3(1, 1, 1)}

TranslateArgs == {Vec3(1, 0, 0), Vec3(0, -2, 0), Vec3(0, 0, 3), Vec3(1, -2, 3)}

\* arguments of rotate, in halves: <<2, 0, 0>> is rotate(1.0, 0.0, 0.0)
RotateArgs == {Vec3(1, 0, 0), Vec3(2, 0, 0), Vec3(4, 0, 0), Vec3(0, 1, 0), Vec3(0, 0, 1)}

\* arguments of matrix: a shear, and a matrix that is not affine
RawMats ==
    { << 1, 2, 0, 0,   0, 1, 0, 0,   3, 0, 1, 0,   0, 0, 0, 1 >>,
      << 0, 1, 0, 1,   1, 0, 0, 0,   0, 0, 2, 1,   1, 0, -1, 1 >> }

\* points and homogeneous vectors the transform is applied to: the origin, the
\* three unit vectors and vectors with three different entries
MatPoints ==
    {Vec3(0, 0, 0), Vec3(1, 0, 0), Vec3(0, 1, 0), Vec3(0, 0, 1), Vec3(1, 2, 3), Vec3(-2, 1, 0)}

Vec4s ==
    { <<1, 0, 0, 0>>, <<0, 1, 0, 0>>, <<0, 0, 1, 0>>, <<0, 0, 0, 1>>,
      <<1, 2, 3, 1>>, <<-2, 1, 3, 0>> }

\* planes: a unit normal along an axis and an offset
UnitNormals ==
    {Vec3(1, 0, 0), Vec3(-1, 0, 0), Vec3(0, 1, 0), Vec3(0, -1, 0), Vec3(0, 0, 1), Vec3(0, 0, -1)}

Planes == {[facing |-> n, offset |-> o] : n \in UnitNormals, o \in 0..MaxOffset}

MatQuiet == UNCHANGED <<center, half_len, ctor, extends>>

InitMat ==
    /\ center = empty.center
    /\ half_len = empty.half_len
    /\ ctor = "empty"
    /\ extends = 0
    /\ m = IDENTITY
    /\ chain = <<>>
    /\ op = "idle"
    /\ arg = None
    /\ ret = None

\* m = m.scale(x, y, z)
Scale(a) ==
    /\ op = "idle"
    /\ Len(chain) < MaxChain
    /\ m' = scale(m, a[1], a[2], a[3])
    /\ chain' = Append(chain, [op |-> "scale", arg |-> a])
    /\ op' = "scale"
    /\ arg' = a
    /\ ret' = m'
    /\ MatQuiet

\* m = m.translate(x, y, z)
Translate(a) ==
    /\ op = "idle"
    /\ Len(chain) < MaxChain
    /\ m' = translate(m, a[1], a[2], a[3])
    /\ chain' = Append(chain, [op |-> "translate", arg |-> a])
    /\ op' = "translate"
    /\ arg' = a
    /\ ret' = m'
    /\ MatQuiet

\* m = m.rotate(x, y, z)
Rotate(a) ==
    /\ op = "idle"
    /\ Len(chain) < MaxChain
    /\ m' = rotate(m, a[1], a[2], a[3])
    /\ chain' = Append(chain, [op |-> "rotate", arg |-> a])
    /\ op' = "rotate"
    /\ arg' = a
    /\ ret' = m'
    /\ MatQuiet

\* m = m.matrix(mat)
Matrix(mat) ==
    /\ op = "idle"
    /\ Len(chain) < MaxChain
    /\ m' = matrix(m, mat)
    /\ chain' = Append(chain, [op |-> "matrix", arg |-> mat])
    /\ op' = "matrix"
    /\ arg' = mat
    /\ ret' = m'
    /\ MatQuiet

\* m * p
ApplyVec3(p) ==
    /\ op = "idle"
    /\ op' = "mul_vec3"
    /\ arg' = p
    /\ ret' = MulVec3(m, p)
    /\ UNCHANGED <<m, chain>>
    /\ MatQuiet

\* m * v
ApplyVec4(v) ==
    /\ op = "idle"
    /\ op' = "mul_vec4"
    /\ arg' = v
    /\ ret' = MulVec4(m, v)
    /\ UNCHANGED <<m, chain>>
    /\ MatQuiet

\* the translation vector of M
Translation(M) == Vec3(At(M, 12), At(M, 13), At(M, 14))

\* m * plane; the argument records what facing.angle(t) returned (0 when the
\* translation is zero and angle is not called)
ApplyPlane(pl) ==
    /\ op = "idle"
    /\ LET facing == transform_dir(pl.facing, m)
           t == Translation(m)
       IN  IF t = Vec3(0, 0, 0)
           THEN /\ arg' = [plane |-> pl, angle |-> 0]
                /\ ret' = MulPlane(m, pl, 0)
           ELSE /\ Aligned(facing, t)
                /\ \E raw \in angle(facing, t) :
                      /\ arg' = [plane |-> pl, angle |-> raw]
                      /\ ret' = MulPlane(m, pl, raw)
    /\ op' = "mul_plane"
    /\ UNCHANGED <<m, chain>>
    /\ MatQuiet

ScaleAny == op = "idle" /\ \E a \in ScaleArgs : Scale(a)

TranslateAny == op = "idle" /\ \E a \in TranslateArgs : Translate(a)

RotateAny == op = "idle" /\ \E a \in RotateArgs : Rotate(a)

MatrixAny == op = "idle" /\ \E mat \in RawMats : Matrix(mat)

ApplyVec3Any == op = "idle" /\ \E p \in MatPoints : ApplyVec3(p)

ApplyVec4Any == op = "idle" /\ \E v \in Vec4s : ApplyVec4(v)

ApplyPlaneAny == op = "idle" /\ \E pl \in Planes : ApplyPlane(pl)

NextMat ==
    \/ ScaleAny
    \/ TranslateAny
    \/ RotateAny
    \/ MatrixAny
    \/ ApplyVec3Any
    \/ ApplyVec4Any
    \/ ApplyPlaneAny
    \/ Return

SpecMat == InitMat /\ [][NextMat]_vars

----------------------------------------------------------------------------
(* Properties of the transform *)

\* the chain is exactly the calls cs, in order
Built(cs) == chain = cs

\* C4: chained calls compose in calling order: A.matrix(B) applied to a
\* homogeneous vector v is B applied to (A applied to v); and
\* IDENTITY.scale(sx, sy, sz).translate(tx, ty, tz) takes the point (px, py,
\* pz) to (sx * px + tx, sy * py + ty, sz * pz + tz).
C4_CallingOrder ==
    [][/\ op' = "matrix" =>
            \A v \in Vec4s : MulVec4(m', v) = MulVec4(arg', MulVec4(m, v))
       /\ (/\ op' = "mul_vec3"
           /\ Len(chain') = 2
           /\ chain'[1].op = "scale"
           /\ chain'[2].op = "translate") =>
            LET sc == chain'[1].arg
                tr == chain'[2].arg
            IN  ret' = Vec3(sc[1] * arg'[1] + tr[1], sc[2] * arg'[2] + tr[2],
                            sc[3] * arg'[3] + tr[3])
      ]_vars

\* C4's case: IDENTITY.scale(2, 3, 5).translate(1, -2, 3) applied to (1, 2, 3)
\* gives (3, 4, 18), the scaled point translated.
C4_Witness ==
    /\ op = "mul_vec3"
    /\ Built(<<[op |-> "scale", arg |-> Vec3(2, 3, 5)],
               [op |-> "translate", arg |-> Vec3(1, -2, 3)]>>)
    /\ arg = Vec3(1, 2, 3)
    /\ ret = Vec3(3, 4, 18)

\* C5: rotate takes its angles in units of pi radians: IDENTITY.rotate(1, 0, 0)
\* is a half turn about x, taking (px, py, pz) to (px, -py, -pz), and
\* IDENTITY.rotate(2, 0, 0) takes every point to itself.
C5_HalfTurnUnits ==
    /\ (op = "mul_vec3" /\ Built(<<[op |-> "rotate", arg |-> Vec3(2, 0, 0)]>>)) =>
          ret = Vec3(arg[1], -arg[2], -arg[3])
    /\ (op = "mul_vec3" /\ Built(<<[op |-> "rotate", arg |-> Vec3(4, 0, 0)]>>)) =>
          ret = arg

\* C6: for a matrix with translation t # 0 and raw angle a between the
\* transformed normal and t, Mat4 * Plane adds |t| * cos(a) to the offset
\* (nothing when a is pi/2 or 3pi/2); for a in [0, 2pi] the folded angle is in
\* [0, pi/2] and the sign b is -1 exactly when a is in (pi/2, 3pi/2), pi
\* included; a translation alone by d along the unit normal gives the old
\* offset + d and the same normal.
C6_PlaneOffset ==
    (op = "mul_plane" /\ Translation(m) # Vec3(0, 0, 0)) =>
        LET pl == arg.plane
            a == Abs(arg.angle)
            t == Translation(m)
            f == FoldAngle(ReduceAngle(a))
            d == Dot(pl.facing, t)
        IN  /\ Cos(a) = 0 => ret.offset = pl.offset
            /\ Cos(a) # 0 => ret.offset = pl.offset + mag(t) * Cos(a)
            /\ a <= 2 * PI =>
                  /\ f.a \in 0..(PI \div 2)
                  /\ f.b = -1 <=> (PI \div 2 < a /\ a < (3 * PI) \div 2)
                  /\ f.b \in {-1, 1}
            /\ (/\ Len(chain) = 1
                /\ chain[1].op = "translate"
                /\ t = Vec3(d * pl.facing[1], d * pl.facing[2], d * pl.facing[3])) =>
                  (ret.offset = pl.offset + d /\ ret.facing = pl.facing)

\* C6's case: the plane y = 1 under translate(0, -2, 0): the normal and the
\* translation are opposite (raw angle pi), the new offset is 1 - 2.
C6_Witness ==
    /\ op = "mul_plane"
    /\ Built(<<[op |-> "translate", arg |-> Vec3(0, -2, 0)]>>)
    /\ arg = [plane |-> [facing |-> Vec3(0, 1, 0), offset |-> 1], angle |-> PI]
    /\ ret = [facing |-> Vec3(0, 1, 0), offset |-> -1]

====
